---- MODULE Spec2Model ----
(***************************************************************************)
(* Model of lasagne/layers/pool.py: the output-length arithmetic of the    *)
(* pooling operators, the construction of the pooling / upscaling /        *)
(* feature-pooling layers, their shape inference and their value           *)
(* computation on small concrete tensors.                                  *)
(*                                                                         *)
(* Python values are modelled as follows.                                  *)
(*   - an "optional integer" (a dimension that may be None) is a sequence: *)
(*     None is <<>> and the integer n is <<n>>;                            *)
(*   - a call's outcome is a record [exc, val]: exc = "none" when the call *)
(*     returned val, otherwise the name of the exception it raised;        *)
(*   - a tensor is a record [shape, data]: shape a sequence of integers,   *)
(*     data the elements in row-major (C) order.                           *)
(***************************************************************************)
EXTENDS Integers, Sequences, FiniteSets, TLC

VARIABLES
    call,       \* the last direct call of pool_output_length: its arguments and outcome
    layer,      \* the layer object constructed last (its attributes), or NoLayer
    ctor,       \* the arguments of the last constructor call
    op,         \* the operation performed last
    exc,        \* the exception the last operation raised, "none" if it returned
    shape_in,   \* the shape handed to the last shape inference
    shape_out,  \* the shape the last shape inference returned
    x,          \* the tensor handed to the last value computation
    y,          \* the tensor the last value computation returned
    feed        \* the (layer, input) that produced x, when x was fed from a previous output

vars == <<call, layer, ctor, op, exc, shape_in, shape_out, x, y, feed>>

----------------------------------------------------------------------------
(* Bounds of the model *)

MaxLen == 10
MaxPool == 4
MaxStride == 4
MaxPad == 2
MaxRank == 6
MaxWin == 2
MaxAxisRank == 3
MaxDim == 4
MaxElems == 4
MaxScale == 3
MantissaBits == 3
MaxExponent == 2

----------------------------------------------------------------------------
(* Python values *)

None == <<>>

Some(n) == <<n>>

IsNone(v) == v = <<>>

Val(v) == v[1]

Returned(v) == [exc |-> "none", val |-> v]

Raised(e) == [exc |-> e, val |-> None]

Max(a, b) == IF a >= b THEN a ELSE b

(* Python's a // b for b > 0: the floor of a / b, also for negative a. *)
FloorDiv(a, b) ==
    IF a >= 0 THEN a \div b ELSE -((-a + b - 1) \div b)

(* Python's a % b for b > 0: the remainder that goes with FloorDiv. *)
PyMod(a, b) == a - b * FloorDiv(a, b)

----------------------------------------------------------------------------
(* pool_output_length *)

(* Mutant: the ceil-division by the stride written with % instead of //. *)
pool_output_length_mod(input_length, pool_size, stride, pad, ignore_border) ==
    IF IsNone(input_length) \/ IsNone(pool_size) THEN Returned(None)
    ELSE IF ignore_border THEN
        LET output_length == Val(input_length) + 2 * pad - Val(pool_size) + 1
        IN  Returned(Some(PyMod(output_length + stride - 1, stride)))
    ELSE IF pad # 0 THEN Raised("AssertionError")
    ELSE IF stride >= Val(pool_size) THEN
        Returned(Some(FloorDiv(Val(input_length) + stride - 1, stride)))
    ELSE
        Returned(Some(Max(0, FloorDiv(Val(input_length) - Val(pool_size)
                                        + stride - 1, stride)) + 1))

(* Mutant: the pad == 0 assertion made before the test for None. *)
pool_output_length_assert_first(input_length, pool_size, stride, pad, ignore_border) ==
    IF ~ignore_border /\ pad # 0 THEN Raised("AssertionError")
    ELSE IF IsNone(input_length) \/ IsNone(pool_size) THEN Returned(None)
    ELSE IF ignore_border THEN
        LET output_length == Val(input_length) + 2 * pad - Val(pool_size) + 1
        IN  Returned(Some(FloorDiv(output_length + stride - 1, stride)))
    ELSE IF stride >= Val(pool_size) THEN
        Returned(Some(FloorDiv(Val(input_length) + stride - 1, stride)))
    ELSE
        Returned(Some(Max(0, FloorDiv(Val(input_length) - Val(pool_size)
                                        + stride - 1, stride)) + 1))

(* Mutant: the pad == 0 assertion left out. *)
pool_output_length_no_assert(input_length, pool_size, stride, pad, ignore_border) ==
    IF IsNone(input_length) \/ IsNone(pool_size) THEN Returned(None)
    ELSE IF ignore_border THEN
        LET output_length == Val(input_length) + 2 * pad - Val(pool_size) + 1
        IN  Returned(Some(FloorDiv(output_length + stride - 1, stride)))
    ELSE IF stride >= Val(pool_size) THEN
        Returned(Some(FloorDiv(Val(input_length) + stride - 1, stride)))
    ELSE
        Returned(Some(Max(0, FloorDiv(Val(input_length) - Val(pool_size)
                                        + stride - 1, stride)) + 1))

(* pool_output_length(input_length, pool_size, stride, pad, ignore_border):  *)
(* input_length and pool_size are optional integers, stride and pad are      *)
(* integers.                                                                 *)
pool_output_length(input_length, pool_size, stride, pad, ignore_border) ==
    IF IsNone(input_length) \/ IsNone(pool_size) THEN Returned(None)
    ELSE IF ignore_border THEN
        LET output_length == Val(input_length) + 2 * pad - Val(pool_size) + 1
        IN  Returned(Some(FloorDiv(output_length + stride - 1, stride)))
    ELSE IF pad # 0 THEN Raised("AssertionError")
    ELSE IF stride >= Val(pool_size) THEN
        Returned(Some(FloorDiv(Val(input_length) + stride - 1, stride)))
    ELSE
        Returned(Some(Max(0, FloorDiv(Val(input_length) - Val(pool_size)
                                        + stride - 1, stride)) + 1))

----------------------------------------------------------------------------
(* Idle values of the variables an operation does not use *)

NoCall == [input_length |-> None, pool_size |-> None, stride |-> 1, pad |-> 0,
           ignore_border |-> TRUE, ret |-> Returned(None)]

(* A layer object before __init__ has set anything. *)
NoLayer ==
    [cls |-> "none", input_shape |-> <<>>, pool_size |-> <<>>, stride |-> <<>>,
     pad |-> <<>>, ignore_border |-> TRUE, mode |-> "", scale_factor |-> <<>>,
     axis |-> 0, pool_function |-> ""]

NoCtor == [cls |-> "none"]

NoShape == <<>>

NoTensor == [shape |-> <<>>, data |-> <<>>]

NoFeed == [layer |-> NoLayer, input |-> NoTensor]

----------------------------------------------------------------------------
(* Direct calls of pool_output_length *)

OptLengths == {None} \cup {Some(n) : n \in 0..MaxLen}

OptPoolSizes == {None} \cup {Some(n) : n \in 1..MaxPool}

CallPoolOutputLength ==
    /\ op = "none"
    /\ \E input_length \in OptLengths, pool_size \in OptPoolSizes,
       stride \in 1..MaxStride, pad \in 0..MaxPad, ignore_border \in BOOLEAN :
        LET ret == pool_output_length(input_length, pool_size, stride, pad,
                                      ignore_border)
        IN  /\ call' = [input_length |-> input_length, pool_size |-> pool_size,
                        stride |-> stride, pad |-> pad,
                        ignore_border |-> ignore_border, ret |-> ret]
            /\ op' = "pool_output_length"
            /\ exc' = ret.exc
            /\ UNCHANGED <<layer, ctor, shape_in, shape_out, x, y, feed>>

Init ==
    /\ call = NoCall
    /\ layer = NoLayer
    /\ ctor = NoCtor
    /\ op = "none"
    /\ exc = "none"
    /\ shape_in = NoShape
    /\ shape_out = NoShape
    /\ x = NoTensor
    /\ y = NoTensor
    /\ feed = NoFeed

Next == CallPoolOutputLength

Spec == Init /\ [][Next]_vars

----------------------------------------------------------------------------
(* Properties of pool_output_length *)

(* The last operation was a call of pool_output_length on known integers. *)
KnownCall ==
    /\ op = "pool_output_length"
    /\ ~IsNone(call.input_length)
    /\ ~IsNone(call.pool_size)

(* The number of windows k >= 0 that fit entirely inside the padded input. *)
FullWindows(input_length, pool_size, stride, pad) ==
    Cardinality({k \in 0..(input_length + 2 * pad) :
                    k * stride + pool_size <= input_length + 2 * pad})

(* Some input element lies in none of the full windows (pad = 0). *)
Uncovered(input_length, pool_size, stride) ==
    \E i \in 0..(input_length - 1) :
        \A k \in 0..input_length :
            k * stride + pool_size <= input_length
                => ~(k * stride <= i /\ i < k * stride + pool_size)

(* C1: with ignore_border=True, for input_length >= 0, pool_size >= 1,      *)
(* stride >= 1 and pad >= 0, pool_output_length returns the number of       *)
(* pooling windows that fit entirely inside the padded input.               *)
C1_CountsFullWindows ==
    (KnownCall /\ call.ignore_border)
        => call.ret = Returned(Some(FullWindows(Val(call.input_length),
                                                Val(call.pool_size),
                                                call.stride, call.pad)))

(* C2: with pad = 0 and ignore_border=False, pool_output_length equals the  *)
(* ignore_border=True result plus one when some input element lies in none  *)
(* of the full windows, and equals the ignore_border=True result when every *)
(* input element is covered.                                                *)
C2_PartialRegionAppended ==
    (KnownCall /\ ~call.ignore_border /\ call.pad = 0)
        => LET full == pool_output_length(call.input_length, call.pool_size,
                                          call.stride, 0, TRUE)
               extra == IF Uncovered(Val(call.input_length),
                                     Val(call.pool_size), call.stride)
                        THEN 1 ELSE 0
           IN  call.ret = Returned(Some(Val(full.val) + extra))

(* C3: with ignore_border=True, pool_output_length is monotonically         *)
(* non-decreasing in input_length: no shorter input gets a longer output.   *)
C3_Monotone ==
    (KnownCall /\ call.ignore_border)
        => \A a \in 0..Val(call.input_length) :
              Val(pool_output_length(Some(a), call.pool_size, call.stride,
                                     call.pad, TRUE).val)
                  <= Val(call.ret.val)

(* C3 witness: a call whose result is strictly larger than that of a        *)
(* shorter input, with a stride above one and padding.                      *)
C3_Witness ==
    /\ KnownCall /\ call.ignore_border
    /\ call.stride > 1 /\ call.pad > 0
    /\ Val(call.input_length) >= 2
    /\ Val(call.ret.val) >
         Val(pool_output_length(Some(0), call.pool_size, call.stride,
                                call.pad, TRUE).val)

(* C8: when input_length or pool_size is None, pool_output_length returns   *)
(* None for every stride, pad and ignore_border, and never fails.           *)
C8_NonePropagates ==
    (op = "pool_output_length"
        /\ (IsNone(call.input_length) \/ IsNone(call.pool_size)))
        => call.ret = Returned(None) /\ exc = "none"

(* C8 witness: a call with an unknown length, ignore_border=False and       *)
(* pad != 0 that returned None.                                             *)
C8_Witness ==
    /\ op = "pool_output_length"
    /\ IsNone(call.input_length) /\ ~IsNone(call.pool_size)
    /\ ~call.ignore_border /\ call.pad # 0
    /\ call.ret = Returned(None)

(* C9: on known integers with ignore_border=False, pool_output_length fails *)
(* with an assertion error and returns no length when pad != 0, and never   *)
(* fails when pad == 0.                                                     *)
C9_AssertPadZero ==
    (KnownCall /\ ~call.ignore_border)
        => /\ call.pad # 0 => call.ret = Raised("AssertionError")
           /\ call.pad = 0 => (call.ret.exc = "none" /\ ~IsNone(call.ret.val))

(* C9 witness: a call on known integers with ignore_border=False and        *)
(* pad != 0 that raised the assertion error.                                *)
C9_Witness ==
    /\ KnownCall /\ ~call.ignore_border /\ call.pad # 0
    /\ exc = "AssertionError"

----------------------------------------------------------------------------
(* Classes and constructor arguments *)

(* The base class each class of the module is declared with. *)
Parent(cls) ==
    CASE cls = "MaxPool1DLayer" -> "Pool1DLayer"
      [] cls = "MaxPool2DLayer" -> "Pool2DLayer"
      [] cls = "MaxPool3DLayer" -> "Pool3DLayer"
      [] cls = "Layer" -> "object"
      [] OTHER -> "Layer"

(* issubclass(cls, base): the classes here are at most two steps below Layer. *)
IsSubclass(cls, base) ==
    \/ cls = base
    \/ Parent(cls) = base
    \/ Parent(Parent(cls)) = base

(* A window / stride / pad argument: an integer, an iterable or None. *)
IntArg(n) == [kind |-> "int", v |-> <<n>>]

TupArg(t) == [kind |-> "tuple", v |-> t]

NoneArg == [kind |-> "None", v |-> <<>>]

(* as_tuple(x, N): a scalar is repeated N times, an iterable must have       *)
(* length N.                                                                 *)
as_tuple(arg, N) ==
    IF arg.kind = "tuple"
    THEN IF Len(arg.v) = N THEN Returned(arg.v) ELSE Raised("ValueError")
    ELSE Returned([i \in 1..N |-> arg.v[1]])

(* Layer.__init__(self, incoming): stores the incoming shape. *)
Layer_init(self, incoming) ==
    Returned([self EXCEPT !.input_shape = incoming])

(* super(typ, self).__init__(incoming): Python refuses the call unless self  *)
(* is an instance of typ; every typ here derives from Layer directly.        *)
Super_init(typ, self, incoming) ==
    IF ~IsSubclass(self.cls, typ) THEN Raised("TypeError")
    ELSE Layer_init(self, incoming)

(* The common tail of the PoolNDLayer constructors: stride, pad,             *)
(* ignore_border and mode, once pool_size is a tuple.                        *)
PoolAttributes(self, N, ps, stride, pad, ignore_border, mode) ==
    LET st == IF stride.kind = "None" THEN Returned(ps) ELSE as_tuple(stride, N)
        pd == as_tuple(pad, N)
    IN  IF st.exc # "none" THEN st
        ELSE IF pd.exc # "none" THEN pd
        ELSE Returned([self EXCEPT !.pool_size = ps, !.stride = st.val,
                                   !.pad = pd.val,
                                   !.ignore_border = ignore_border,
                                   !.mode = mode])

(* Pool1DLayer.__init__ *)
Pool1DLayer_init(self, incoming, pool_size, stride, pad, ignore_border, mode) ==
    LET base == Super_init("Pool1DLayer", self, incoming)
        ps == as_tuple(pool_size, 1)
    IN  IF base.exc # "none" THEN base
        ELSE IF Len(base.val.input_shape) # 3 THEN Raised("ValueError")
        ELSE IF ps.exc # "none" THEN ps
        ELSE PoolAttributes(base.val, 1, ps.val, stride, pad, ignore_border, mode)

(* Pool2DLayer.__init__ *)
Pool2DLayer_init(self, incoming, pool_size, stride, pad, ignore_border, mode) ==
    LET base == Super_init("Pool2DLayer", self, incoming)
        ps == as_tuple(pool_size, 2)
    IN  IF base.exc # "none" THEN base
        ELSE IF ps.exc # "none" THEN ps
        ELSE IF Len(base.val.input_shape) # 4 THEN Raised("ValueError")
        ELSE PoolAttributes(base.val, 2, ps.val, stride, pad, ignore_border, mode)

(* Pool3DLayer.__init__: its super() call names Pool2DLayer. *)
Pool3DLayer_init(self, incoming, pool_size, stride, pad, ignore_border, mode) ==
    LET base == Super_init("Pool2DLayer", self, incoming)
        ps == as_tuple(pool_size, 3)
    IN  IF base.exc # "none" THEN base
        ELSE IF ps.exc # "none" THEN ps
        ELSE IF Len(base.val.input_shape) # 5 THEN Raised("ValueError")
        ELSE PoolAttributes(base.val, 3, ps.val, stride, pad, ignore_border, mode)

(* MaxPool1DLayer.__init__, MaxPool2DLayer.__init__, MaxPool3DLayer.__init__ *)
MaxPool1DLayer_init(self, incoming, pool_size, stride, pad, ignore_border) ==
    Pool1DLayer_init(self, incoming, pool_size, stride, pad, ignore_border, "max")

MaxPool2DLayer_init(self, incoming, pool_size, stride, pad, ignore_border) ==
    Pool2DLayer_init(self, incoming, pool_size, stride, pad, ignore_border, "max")

MaxPool3DLayer_init(self, incoming, pool_size, stride, pad, ignore_border) ==
    Pool3DLayer_init(self, incoming, pool_size, stride, pad, ignore_border, "max")

(* cls(incoming, pool_size, stride, pad, ignore_border, mode) for the six    *)
(* windowed pooling classes; the MaxPool classes take no mode.               *)
NewPoolLayer(cls, incoming, pool_size, stride, pad, ignore_border, mode) ==
    LET self == [NoLayer EXCEPT !.cls = cls]
    IN  CASE cls = "Pool1DLayer" ->
               Pool1DLayer_init(self, incoming, pool_size, stride, pad,
                                ignore_border, mode)
          [] cls = "Pool2DLayer" ->
               Pool2DLayer_init(self, incoming, pool_size, stride, pad,
                                ignore_border, mode)
          [] cls = "Pool3DLayer" ->
               Pool3DLayer_init(self, incoming, pool_size, stride, pad,
                                ignore_border, mode)
          [] cls = "MaxPool1DLayer" ->
               MaxPool1DLayer_init(self, incoming, pool_size, stride, pad,
                                   ignore_border)
          [] cls = "MaxPool2DLayer" ->
               MaxPool2DLayer_init(self, incoming, pool_size, stride, pad,
                                   ignore_border)
          [] cls = "MaxPool3DLayer" ->
               MaxPool3DLayer_init(self, incoming, pool_size, stride, pad,
                                   ignore_border)

(* Python's seq[i] for an index the sequence has: negative i counts from the *)
(* end.                                                                      *)
Item(seq, i) == IF i >= 0 THEN seq[i + 1] ELSE seq[Len(seq) + i + 1]

InRange(seq, i) == -Len(seq) <= i /\ i < Len(seq)

(* The multiple-of-pool_size test shared by FeaturePoolLayer.__init__ and    *)
(* FeatureWTALayer.__init__: None % pool_size is a TypeError in Python.      *)
CheckFeatureMaps(self) ==
    IF ~InRange(self.input_shape, self.axis) THEN Raised("IndexError")
    ELSE LET num_feature_maps == Item(self.input_shape, self.axis)
         IN  IF IsNone(num_feature_maps) THEN Raised("TypeError")
             ELSE IF PyMod(Val(num_feature_maps), self.pool_size) # 0
                  THEN Raised("ValueError")
                  ELSE Returned(self)

(* FeaturePoolLayer.__init__ *)
FeaturePoolLayer_init(self, incoming, pool_size, axis, pool_function) ==
    LET base == Super_init("FeaturePoolLayer", self, incoming)
    IN  IF base.exc # "none" THEN base
        ELSE CheckFeatureMaps([base.val EXCEPT !.pool_size = pool_size,
                                               !.axis = axis,
                                               !.pool_function = pool_function])

(* FeatureWTALayer.__init__ *)
FeatureWTALayer_init(self, incoming, pool_size, axis) ==
    LET base == Super_init("FeatureWTALayer", self, incoming)
    IN  IF base.exc # "none" THEN base
        ELSE CheckFeatureMaps([base.val EXCEPT !.pool_size = pool_size,
                                               !.axis = axis])

(* cls(incoming, pool_size, axis) for the two feature pooling classes. *)
NewFeatureLayer(cls, incoming, pool_size, axis) ==
    LET self == [NoLayer EXCEPT !.cls = cls]
    IN  IF cls = "FeaturePoolLayer"
        THEN FeaturePoolLayer_init(self, incoming, pool_size, axis, "max")
        ELSE FeatureWTALayer_init(self, incoming, pool_size, axis)

----------------------------------------------------------------------------
(* Construction of the layers *)

(* The number of spatial axes of a windowed pooling class. *)
SpatialDims(cls) ==
    CASE cls \in {"Pool1DLayer", "MaxPool1DLayer"} -> 1
      [] cls \in {"Pool2DLayer", "MaxPool2DLayer"} -> 2
      [] cls \in {"Pool3DLayer", "MaxPool3DLayer"} -> 3

PoolClasses == {"Pool1DLayer", "Pool2DLayer", "Pool3DLayer"}

MaxPoolClasses == {"MaxPool1DLayer", "MaxPool2DLayer", "MaxPool3DLayer"}

PoolModes == {"max", "average_inc_pad", "average_exc_pad"}

(* Shapes of rank 1..maxrank whose entries are all the same member of dims. *)
UniformShapes(dims, maxrank) ==
    {[i \in 1..r |-> d] : r \in 1..maxrank, d \in dims}

(* A scalar, or an iterable of one, two or three equal entries. *)
DescriptorArgs(vals) ==
    {IntArg(v) : v \in vals}
        \cup {TupArg([i \in 1..k |-> v]) : k \in 1..3, v \in vals}

(* The outcome of a constructor call becomes the state: the new object when  *)
(* __init__ returned, no object when it raised.                              *)
Constructed(name, args, outcome) ==
    /\ op' = name
    /\ ctor' = args
    /\ exc' = outcome.exc
    /\ layer' = IF outcome.exc = "none" THEN outcome.val ELSE NoLayer
    /\ UNCHANGED <<call, shape_in, shape_out, x, y, feed>>

ConstructPoolLayer ==
    /\ op = "none"
    /\ \E cls \in PoolClasses \cup MaxPoolClasses,
          incoming \in UniformShapes({None, Some(MaxDim)}, MaxRank),
          pool_size \in DescriptorArgs(1..MaxWin),
          stride \in {NoneArg} \cup DescriptorArgs({1}),
          pad \in DescriptorArgs(0..1),
          ignore_border \in BOOLEAN,
          mode \in PoolModes :
        /\ cls \in MaxPoolClasses => mode = "max"
        /\ Constructed("construct_pool",
                       [cls |-> cls, incoming |-> incoming,
                        pool_size |-> pool_size, stride |-> stride,
                        pad |-> pad, ignore_border |-> ignore_border,
                        mode |-> mode],
                       NewPoolLayer(cls, incoming, pool_size, stride, pad,
                                    ignore_border, mode))

FeatureDims == {None} \cup {Some(n) : n \in 1..MaxDim}

FeatureShapes == UNION {[1..r -> FeatureDims] : r \in 1..MaxAxisRank}

ConstructFeatureLayer ==
    /\ op = "none"
    /\ \E cls \in {"FeaturePoolLayer", "FeatureWTALayer"},
          incoming \in FeatureShapes,
          pool_size \in 1..MaxPool :
        \E axis \in (-Len(incoming))..(Len(incoming) - 1) :
            Constructed("construct_feature",
                        [cls |-> cls, incoming |-> incoming,
                         pool_size |-> pool_size, axis |-> axis],
                        NewFeatureLayer(cls, incoming, pool_size, axis))

NextCtor == ConstructPoolLayer \/ ConstructFeatureLayer

SpecCtor == Init /\ [][NextCtor]_vars

----------------------------------------------------------------------------
(* Properties of construction *)

(* C4: constructing a windowed pooling layer of dimensionality d succeeds   *)
(* when the input shape has rank d+2 and the window / stride / pad          *)
(* descriptors are valid, and fails with a ValueError for any other rank.   *)
C4_RankDecidesConstruction ==
    op = "construct_pool"
        => LET d == SpatialDims(ctor.cls)
               valid == /\ as_tuple(ctor.pool_size, d).exc = "none"
                        /\ as_tuple(ctor.pad, d).exc = "none"
                        /\ \/ ctor.stride.kind = "None"
                           \/ as_tuple(ctor.stride, d).exc = "none"
           IN  /\ (Len(ctor.incoming) = d + 2 /\ valid)
                    => (exc = "none" /\ layer.cls = ctor.cls)
               /\ Len(ctor.incoming) # d + 2 => exc = "ValueError"

(* C5: constructing a feature-pool or winner-take-all layer fails with a    *)
(* ValueError when the known size of the target axis is no multiple of      *)
(* pool_size, succeeds when it is a multiple, and succeeds when the size of *)
(* the target axis is None.                                                 *)
C5_MultipleDecidesConstruction ==
    op = "construct_feature"
        => LET n == Item(ctor.incoming, ctor.axis)
           IN  IF IsNone(n) THEN exc = "none" /\ layer.cls = ctor.cls
               ELSE IF PyMod(Val(n), ctor.pool_size) # 0
                    THEN exc = "ValueError"
                    ELSE exc = "none" /\ layer.cls = ctor.cls

----------------------------------------------------------------------------
(* Tensors: a shape and the elements in row-major order *)

RECURSIVE Prod(_)
Prod(shape) == IF shape = <<>> THEN 1 ELSE Head(shape) * Prod(Tail(shape))

(* The row-major stride of axis k (1-based) in a tensor of the given shape. *)
Stride(shape, k) == Prod(SubSeq(shape, k + 1, Len(shape)))

(* The multi-index (0-based entries) of the flat position f (0-based). *)
Unravel(f, shape) ==
    [k \in 1..Len(shape) |-> (f \div Stride(shape, k)) % shape[k]]

RECURSIVE RavelFrom(_, _, _)
RavelFrom(idx, shape, k) ==
    IF k > Len(shape) THEN 0
    ELSE idx[k] * Stride(shape, k) + RavelFrom(idx, shape, k + 1)

(* The flat position (0-based) of a multi-index. *)
Ravel(idx, shape) == RavelFrom(idx, shape, 1)

(* The element of tensor t at a multi-index. *)
At(t, idx) == t.data[Ravel(idx, t.shape) + 1]

(* tensor.reshape(shape): same elements in the same order; the element      *)
(* counts must agree.                                                       *)
Reshape(t, shape) ==
    IF Prod(shape) = Prod(t.shape)
    THEN Returned([shape |-> shape, data |-> t.data])
    ELSE Raised("ValueError")

(* A 0-based axis number of an ndim-dimensional tensor, negative counting   *)
(* from the end, as a 1-based position.                                     *)
AxisPos(axis, ndim) == IF axis >= 0 THEN axis + 1 ELSE axis + ndim + 1

(* The values of t along position pos through idx, as a sequence. *)
Line(t, idx, pos) ==
    [j \in 1..t.shape[pos] |-> At(t, [idx EXCEPT ![pos] = j - 1])]

(* The index (0-based) of the first occurrence of the maximum of a          *)
(* non-empty sequence.                                                      *)
FirstMax(values) ==
    CHOOSE j \in 0..(Len(values) - 1) :
        /\ \A i \in 0..(Len(values) - 1) : values[i + 1] <= values[j + 1]
        /\ \A i \in 0..(j - 1) : values[i + 1] < values[j + 1]

(* The maximum of a non-empty sequence. *)
MaxOf(values) == values[FirstMax(values) + 1]

(* T.argmax(t, axis=pos, keepdims=True): the first maximal index along pos, *)
(* the reduced axis kept with size 1.                                       *)
ArgMaxKeepdims(t, pos) ==
    LET shape == [t.shape EXCEPT ![pos] = 1]
    IN  [shape |-> shape,
         data |-> [f \in 1..Prod(shape) |->
                      FirstMax(Line(t, Unravel(f - 1, shape), pos))]]

(* T.max(t, axis=pos): the maximum along pos, the reduced axis removed. *)
MaxAlong(t, pos) ==
    LET without(seq) == SubSeq(seq, 1, pos - 1) \o SubSeq(seq, pos + 1, Len(seq))
        with(idx) == SubSeq(idx, 1, pos - 1) \o <<0>> \o SubSeq(idx, pos, Len(idx))
        shape == without(t.shape)
    IN  [shape |-> shape,
         data |-> [f \in 1..Prod(shape) |->
                      MaxOf(Line(t, with(Unravel(f - 1, shape)), pos))]]

(* T.arange(n).dimshuffle('x', ..., 0, ..., 'x'): the values 0..n-1 along   *)
(* position pos of a tensor with ndim axes, every other axis of size 1.     *)
ArangeAlong(n, pos, ndim) ==
    LET shape == [k \in 1..ndim |-> IF k = pos THEN n ELSE 1]
    IN  [shape |-> shape,
         data |-> [f \in 1..Prod(shape) |-> Unravel(f - 1, shape)[pos]]]

(* The index into an operand of shape `shape` that broadcasting pairs with  *)
(* the result index idx: an axis of size 1 is read at 0.                    *)
BroadcastIndex(shape, idx) ==
    [k \in 1..Len(shape) |-> IF shape[k] = 1 THEN 0 ELSE idx[k]]

(* T.eq(a, b) for operands of the same rank, broadcast along the axes of    *)
(* size 1; the result holds 1 where the elements are equal, else 0.         *)
Eq(a, b) ==
    IF \E k \in 1..Len(a.shape) :
          a.shape[k] # b.shape[k] /\ a.shape[k] # 1 /\ b.shape[k] # 1
    THEN Raised("ValueError")
    ELSE LET shape == [k \in 1..Len(a.shape) |-> Max(a.shape[k], b.shape[k])]
         IN  Returned(
               [shape |-> shape,
                data |-> [f \in 1..Prod(shape) |->
                             LET idx == Unravel(f - 1, shape)
                             IN  IF At(a, BroadcastIndex(a.shape, idx))
                                      = At(b, BroadcastIndex(b.shape, idx))
                                 THEN 1 ELSE 0]])

(* a * b for tensors of the same shape. *)
Mul(a, b) ==
    [shape |-> a.shape, data |-> [f \in 1..Len(a.data) |-> a.data[f] * b.data[f]]]

(* range(a, b) as a sequence. *)
PyRange(a, b) == [i \in 1..Max(0, b - a) |-> a + i - 1]

(* The tuple (seq[k] for k in ks). *)
Items(seq, ks) == [i \in 1..Len(ks) |-> Item(seq, ks[i])]

----------------------------------------------------------------------------
(* FeatureWTALayer: shape inference and value computation *)

(* Layer.get_output_shape_for, which FeatureWTALayer inherits unchanged:    *)
(* the output has the shape of the input.                                   *)
Layer_get_output_shape_for(self, input_shape) == Returned(input_shape)

(* Mutant: the layer pools, returning the maximum of each region instead of *)
(* the masked input.                                                        *)
FeatureWTALayer_get_output_for_pooled(self, input) ==
    LET ndim == Len(input.shape)
        num_feature_maps == Item(input.shape, self.axis)
        num_pools == FloorDiv(num_feature_maps, self.pool_size)
        before == Items(input.shape, PyRange(0, self.axis))
        after == Items(input.shape, PyRange(self.axis + 1, ndim))
        pool_shape == before \o <<num_pools, self.pool_size>> \o after
        input_reshaped == Reshape(input, pool_shape)
    IN  IF input_reshaped.exc # "none" THEN input_reshaped
        ELSE Returned(MaxAlong(input_reshaped.val,
                               AxisPos(self.axis + 1, Len(pool_shape))))

(* Mutant: argmax taken over axis self.axis instead of self.axis + 1. *)
FeatureWTALayer_get_output_for_axis(self, input) ==
    LET ndim == Len(input.shape)
        num_feature_maps == Item(input.shape, self.axis)
        num_pools == FloorDiv(num_feature_maps, self.pool_size)
        before == Items(input.shape, PyRange(0, self.axis))
        after == Items(input.shape, PyRange(self.axis + 1, ndim))
        pool_shape == before \o <<num_pools, self.pool_size>> \o after
        input_reshaped == Reshape(input, pool_shape)
    IN  IF input_reshaped.exc # "none" THEN input_reshaped
        ELSE LET max_indices ==
                     ArgMaxKeepdims(input_reshaped.val,
                                    AxisPos(self.axis, Len(pool_shape)))
                 arange == ArangeAlong(self.pool_size, Len(before) + 2,
                                       Len(pool_shape))
                 eq == Eq(max_indices, arange)
             IN  IF eq.exc # "none" THEN eq
                 ELSE LET mask == Reshape(eq.val, input.shape)
                      IN  IF mask.exc # "none" THEN mask
                          ELSE Returned(Mul(input, mask.val))

(* FeatureWTALayer.get_output_for *)
FeatureWTALayer_get_output_for(self, input) ==
    LET ndim == Len(input.shape)
        num_feature_maps == Item(input.shape, self.axis)
        num_pools == FloorDiv(num_feature_maps, self.pool_size)
        before == Items(input.shape, PyRange(0, self.axis))
        after == Items(input.shape, PyRange(self.axis + 1, ndim))
        pool_shape == before \o <<num_pools, self.pool_size>> \o after
        input_reshaped == Reshape(input, pool_shape)
    IN  IF input_reshaped.exc # "none" THEN input_reshaped
        ELSE LET max_indices ==
                     ArgMaxKeepdims(input_reshaped.val,
                                    AxisPos(self.axis + 1, Len(pool_shape)))
                 arange == ArangeAlong(self.pool_size, Len(before) + 2,
                                       Len(pool_shape))
                 eq == Eq(max_indices, arange)
             IN  IF eq.exc # "none" THEN eq
                 ELSE LET mask == Reshape(eq.val, input.shape)
                      IN  IF mask.exc # "none" THEN mask
                          ELSE Returned(Mul(input, mask.val))

(* Concrete tensors and their shapes *)
Elems == {-1, 0, 1}

TensorShapes(rank) == {s \in [1..rank -> 1..MaxDim] : Prod(s) <= MaxElems}

Tensors(shape) == {[shape |-> shape, data |-> d] : d \in [1..Prod(shape) -> Elems]}

(* A shape of known sizes as the tuple of optional integers a layer stores. *)
Known(shape) == [k \in 1..Len(shape) |-> Some(shape[k])]

Sizes(input_shape) == [k \in 1..Len(input_shape) |-> Val(input_shape[k])]

ConstructWTALayer ==
    /\ op = "none"
    /\ \E rank \in 1..MaxAxisRank :
         \E shape \in TensorShapes(rank), pool_size \in 1..MaxPool,
            axis \in (-rank)..(rank - 1) :
            Constructed("construct_feature",
                        [cls |-> "FeatureWTALayer", incoming |-> Known(shape),
                         pool_size |-> pool_size, axis |-> axis],
                        NewFeatureLayer("FeatureWTALayer", Known(shape),
                                        pool_size, axis))

(* Shape inference on a constructed winner-take-all layer. A layer does not *)
(* change after construction, so one call per constructed layer is taken.   *)
WTAGetOutputShapeFor ==
    /\ op = "construct_feature"
    /\ layer.cls = "FeatureWTALayer"
    /\ \E shape \in TensorShapes(Len(layer.input_shape)) :
        LET ret == Layer_get_output_shape_for(layer, Known(shape))
        IN  /\ Val(Item(Known(shape), layer.axis)) % layer.pool_size = 0
            /\ op' = "get_output_shape_for"
            /\ exc' = ret.exc
            /\ shape_in' = Known(shape)
            /\ shape_out' = ret.val
            /\ UNCHANGED <<call, layer, ctor, x, y, feed>>

(* Value computation on a tensor of the shape the layer was built for. *)
WTAGetOutputFor ==
    /\ op = "construct_feature"
    /\ layer.cls = "FeatureWTALayer"
    /\ \E input \in Tensors(Sizes(layer.input_shape)) :
        LET ret == FeatureWTALayer_get_output_for(layer, input)
        IN  /\ op' = "get_output_for"
            /\ exc' = ret.exc
            /\ x' = input
            /\ y' = IF ret.exc = "none" THEN ret.val ELSE NoTensor
            /\ UNCHANGED <<call, layer, ctor, shape_in, shape_out, feed>>

NextWTA == ConstructWTALayer \/ WTAGetOutputShapeFor \/ WTAGetOutputFor

SpecWTA == Init /\ [][NextWTA]_vars

----------------------------------------------------------------------------
(* Properties of the winner-take-all layer *)

(* The target axis of the current layer as a 1-based position. *)
TargetPos == AxisPos(layer.axis, Len(layer.input_shape))

(* The first index, within its pooling group along the target axis, of the  *)
(* maximum of the group that the element of x at idx belongs to.            *)
GroupWinner(idx) ==
    LET first == (idx[TargetPos] \div layer.pool_size) * layer.pool_size
    IN  FirstMax([j \in 1..layer.pool_size |->
                     At(x, [idx EXCEPT ![TargetPos] = first + j - 1])])

(* The number of nonzero elements of y in the pooling group of idx. *)
GroupNonzeros(idx) ==
    LET first == (idx[TargetPos] \div layer.pool_size) * layer.pool_size
    IN  Cardinality({j \in 0..(layer.pool_size - 1) :
                        At(y, [idx EXCEPT ![TargetPos] = first + j]) # 0})

WTAComputed ==
    op = "get_output_for" /\ layer.cls = "FeatureWTALayer" /\ exc = "none"

(* The shape a winner-take-all layer would have to produce if it divided   *)
(* the target axis of the given shape by pool_size.                         *)
TargetAxisDivided(shape) ==
    [shape EXCEPT ![TargetPos] = Some(Val(shape[TargetPos]) \div layer.pool_size)]

(* C6 as stated: winner-take-all shape inference on an input shape whose    *)
(* target-axis size is a multiple of pool_size returns a shape with exactly *)
(* the target axis divided by pool_size, every other axis unchanged (and    *)
(* the computed output, whose shape inference has to predict, has it).      *)
C6_ShapeDividesTargetAxis ==
    /\ (op = "get_output_shape_for" /\ layer.cls = "FeatureWTALayer")
          => shape_out = TargetAxisDivided(shape_in)
    /\ WTAComputed => Known(y.shape) = TargetAxisDivided(Known(x.shape))

(* C6 as amended: winner-take-all shape inference returns the input shape   *)
(* unchanged, the target axis included, and the tensor that value           *)
(* computation returns has the shape of its input.                          *)
C6_ShapeUnchanged ==
    /\ (op = "get_output_shape_for" /\ layer.cls = "FeatureWTALayer")
          => shape_out = shape_in
    /\ (op = "get_output_for" /\ layer.cls = "FeatureWTALayer"
          /\ layer.axis >= 0) => exc = "none"
    /\ WTAComputed => y.shape = x.shape

(* C6 witness: a value computation with at least two regions of at least    *)
(* two elements whose output has the shape of the input.                    *)
C6_Witness ==
    /\ WTAComputed
    /\ layer.pool_size >= 2
    /\ x.shape[TargetPos] >= 2 * layer.pool_size
    /\ y.shape = x.shape

(* C7 as stated: in every pooling group the output has exactly one nonzero  *)
(* element, at the lowest index of the group's maximum and equal to the     *)
(* input there; all other elements of the group are zero.                   *)
C7_ExactlyOneNonzero ==
    WTAComputed
        => \A f \in 0..(Prod(x.shape) - 1) :
              LET idx == Unravel(f, x.shape)
              IN  /\ GroupNonzeros(idx) = 1
                  /\ y.data[f + 1] =
                        IF idx[TargetPos] % layer.pool_size = GroupWinner(idx)
                        THEN x.data[f + 1] ELSE 0

(* C7 as amended: for a non-negative target axis value computation returns, *)
(* and in every pooling group the output element at the lowest index of the *)
(* group's maximum equals the input there and every other element of the    *)
(* group is zero; the group has one nonzero element when its maximum is not *)
(* zero and none when it is.                                                *)
C7_WinnerKeptOthersZero ==
    /\ (op = "get_output_for" /\ layer.cls = "FeatureWTALayer"
          /\ layer.axis >= 0) => exc = "none"
    /\ WTAComputed
        => /\ y.shape = x.shape
           /\ \A f \in 0..(Prod(x.shape) - 1) :
                 LET idx == Unravel(f, x.shape)
                     winner == [idx EXCEPT ![TargetPos] =
                                   (idx[TargetPos] \div layer.pool_size)
                                       * layer.pool_size + GroupWinner(idx)]
                 IN  /\ y.data[f + 1] =
                           IF idx = winner THEN x.data[f + 1] ELSE 0
                     /\ GroupNonzeros(idx) = IF At(x, winner) # 0 THEN 1 ELSE 0

(* C7 witness: a computed output for the two columns of a 2 x 2 matrix       *)
(* pooled along axis 0, one column tied at a nonzero maximum and one whose  *)
(* maximum is 0.                                                            *)
C7_Witness ==
    /\ WTAComputed
    /\ layer.pool_size = 2 /\ layer.axis = 0
    /\ x.shape = <<2, 2>>
    /\ x.data = <<1, -1, 1, 0>>
    /\ y.data = <<1, 0, 0, 0>>

----------------------------------------------------------------------------
(* Upscale2DLayer and Pool2DLayer *)

(* Upscale2DLayer.__init__ *)
Upscale2DLayer_init(self, incoming, scale_factor, mode) ==
    LET base == Super_init("Upscale2DLayer", self, incoming)
        sf == as_tuple(scale_factor, 2)
    IN  IF base.exc # "none" THEN base
        ELSE IF sf.exc # "none" THEN sf
        ELSE IF sf.val[1] < 1 \/ sf.val[2] < 1 THEN Raised("ValueError")
        ELSE IF mode \notin {"repeat", "dilate"} THEN Raised("ValueError")
        ELSE Returned([base.val EXCEPT !.scale_factor = sf.val, !.mode = mode])

(* An optional integer times n: None stays None. *)
Times(v, n) == IF IsNone(v) THEN None ELSE Some(Val(v) * n)

(* Upscale2DLayer.get_output_shape_for *)
Upscale2DLayer_get_output_shape_for(self, input_shape) ==
    Returned([input_shape EXCEPT ![3] = Times(@, self.scale_factor[1]),
                                 ![4] = Times(@, self.scale_factor[2])])

(* T.extra_ops.repeat(t, n, axis): every element repeated n times,          *)
(* contiguously, along the axis at position pos.                            *)
Repeat(t, n, pos) ==
    LET shape == [t.shape EXCEPT ![pos] = @ * n]
    IN  [shape |-> shape,
         data |-> [f \in 1..Prod(shape) |->
                      LET idx == Unravel(f - 1, shape)
                      IN  At(t, [idx EXCEPT ![pos] = @ \div n])]]

(* T.set_subtensor(T.zeros(shape)[:, :, ::a, ::b], t): t scattered into the *)
(* positions of a zero tensor whose last two indices are multiples of a, b. *)
Dilate2D(t, shape, a, b) ==
    [shape |-> shape,
     data |-> [f \in 1..Prod(shape) |->
                  LET idx == Unravel(f - 1, shape)
                  IN  IF idx[3] % a = 0 /\ idx[4] % b = 0
                      THEN At(t, [idx EXCEPT ![3] = @ \div a, ![4] = @ \div b])
                      ELSE 0]]

(* Mutant: the two scale factors applied to the wrong axes. *)
Upscale2DLayer_get_output_for_swapped(self, input) ==
    LET a == self.scale_factor[1]
        b == self.scale_factor[2]
    IN  IF self.mode = "repeat"
        THEN LET along3 == IF b > 1 THEN Repeat(input, b, 3) ELSE input
             IN  Returned(IF a > 1 THEN Repeat(along3, a, 4) ELSE along3)
        ELSE IF self.mode = "dilate" /\ (b > 1 \/ a > 1)
        THEN LET output_shape ==
                     Upscale2DLayer_get_output_shape_for(self, Known(input.shape))
             IN  Returned(Dilate2D(input, Sizes(output_shape.val), a, b))
        ELSE Returned(input)

(* Upscale2DLayer.get_output_for *)
Upscale2DLayer_get_output_for(self, input) ==
    LET a == self.scale_factor[1]
        b == self.scale_factor[2]
    IN  IF self.mode = "repeat"
        THEN LET along3 == IF b > 1 THEN Repeat(input, b, 4) ELSE input
             IN  Returned(IF a > 1 THEN Repeat(along3, a, 3) ELSE along3)
        ELSE IF self.mode = "dilate" /\ (b > 1 \/ a > 1)
        THEN LET output_shape ==
                     Upscale2DLayer_get_output_shape_for(self, Known(input.shape))
             IN  Returned(Dilate2D(input, Sizes(output_shape.val), a, b))
        ELSE Returned(input)

(* Mutant: both spatial axes pooled with the first axis's window, stride    *)
(* and pad.                                                                 *)
Pool2DLayer_get_output_shape_for_square(self, input_shape) ==
    LET rows == pool_output_length(input_shape[3], Some(self.pool_size[1]),
                                   self.stride[1], self.pad[1],
                                   self.ignore_border)
        cols == pool_output_length(input_shape[4], Some(self.pool_size[1]),
                                   self.stride[1], self.pad[1],
                                   self.ignore_border)
    IN  IF rows.exc # "none" THEN rows
        ELSE IF cols.exc # "none" THEN cols
        ELSE Returned([input_shape EXCEPT ![3] = rows.val, ![4] = cols.val])

(* Pool2DLayer.get_output_shape_for *)
Pool2DLayer_get_output_shape_for(self, input_shape) ==
    LET rows == pool_output_length(input_shape[3], Some(self.pool_size[1]),
                                   self.stride[1], self.pad[1],
                                   self.ignore_border)
        cols == pool_output_length(input_shape[4], Some(self.pool_size[2]),
                                   self.stride[2], self.pad[2],
                                   self.ignore_border)
    IN  IF rows.exc # "none" THEN rows
        ELSE IF cols.exc # "none" THEN cols
        ELSE Returned([input_shape EXCEPT ![3] = rows.val, ![4] = cols.val])

(* Tensor elements are floating-point numbers. The format is IEEE 754's,    *)
(* scaled down: a finite value is m * 2^e with 0 <= m < 2^MantissaBits and  *)
(* 0 <= e <= MaxExponent (e = 0 holds the subnormals, whose spacing is 1),  *)
(* results are rounded to the nearest value, ties to the even mantissa, and *)
(* a result beyond the largest finite value is Infinity. Only non-negative  *)
(* values are used; rounding is symmetric in the sign.                      *)
Infinity == 2 ^ (MantissaBits + MaxExponent)

Floats ==
    {m * (2 ^ e) : m \in 0..(2 ^ MantissaBits - 1), e \in 0..MaxExponent}

(* num / den rounded to the format. *)
FRound(num, den) ==
    LET fits == {e \in 0..MaxExponent : num < den * (2 ^ (MantissaBits + e))}
    IN  IF fits = {} THEN Infinity
        ELSE LET e == CHOOSE e \in fits : \A e2 \in fits : e <= e2
                 unit == den * (2 ^ e)
                 q == num \div unit
                 r == num % unit
                 m == IF 2 * r > unit \/ (2 * r = unit /\ q % 2 = 1)
                      THEN q + 1 ELSE q
             IN  m * (2 ^ e)

FAdd(a, b) == IF a = Infinity \/ b = Infinity THEN Infinity ELSE FRound(a + b, 1)

FDiv(a, n) == IF a = Infinity THEN Infinity ELSE FRound(a, n)

(* The sum of a sequence, accumulated element by element from the left. *)
RECURSIVE FSum(_)
FSum(values) ==
    IF values = <<>> THEN 0
    ELSE FAdd(FSum(SubSeq(values, 1, Len(values) - 1)), values[Len(values)])

(* theano.tensor.signal.pool.pool_2d, by its documented behaviour: an       *)
(* average is the accumulated sum of the window divided by its count.       *)

Min(a, b) == IF a <= b THEN a ELSE b

(* The length pool_2d gives an axis of length n (Pool.out_shape). *)
PoolOutLen(n, ds, st, pad, ignore_border) ==
    LET r == n + 2 * pad
    IN  IF ignore_border
        THEN IF ds = st THEN FloorDiv(r, st)
             ELSE Max(FloorDiv(r - ds, st) + 1, 0)
        ELSE IF st >= ds THEN FloorDiv(r - 1, st) + 1
             ELSE Max(0, FloorDiv(r - 1 - ds + st, st)) + 1

(* The first index and the index after the last of window i, cut to lo..hi-1 *)
WindowStart(i, st, pad, lo) == Max(lo, i * st - pad)

WindowEnd(i, ds, st, pad, hi) == Min(hi, i * st - pad + ds)

(* pool_2d(input, ds, st, ignore_border, padding, mode) on a 4D tensor. *)
pool_2d(input, ds, st, ignore_border, padding, mode) ==
    IF ~ignore_border /\ padding # <<0, 0>> THEN Raised("NotImplementedError")
    ELSE
    LET H == input.shape[3]
        W == input.shape[4]
        shape == [input.shape EXCEPT
                     ![3] = PoolOutLen(H, ds[1], st[1], padding[1], ignore_border),
                     ![4] = PoolOutLen(W, ds[2], st[2], padding[2], ignore_border)]
        pooled(idx) ==
            LET r0 == WindowStart(idx[3], st[1], padding[1], 0)
                r1 == WindowEnd(idx[3], ds[1], st[1], padding[1], H)
                c0 == WindowStart(idx[4], st[2], padding[2], 0)
                c1 == WindowEnd(idx[4], ds[2], st[2], padding[2], W)
                patch == [k \in 1..((r1 - r0) * (c1 - c0)) |->
                             At(input, [idx EXCEPT
                                           ![3] = r0 + ((k - 1) \div (c1 - c0)),
                                           ![4] = c0 + ((k - 1) % (c1 - c0))])]
                padded ==
                    (WindowEnd(idx[3], ds[1], st[1], padding[1], H + padding[1])
                       - WindowStart(idx[3], st[1], padding[1], -padding[1]))
                  * (WindowEnd(idx[4], ds[2], st[2], padding[2], W + padding[2])
                       - WindowStart(idx[4], st[2], padding[2], -padding[2]))
            IN  CASE mode = "max" -> MaxOf(patch)
                  [] mode = "average_exc_pad" -> FDiv(FSum(patch), Len(patch))
                  [] mode = "average_inc_pad" -> FDiv(FSum(patch), padded)
    IN  Returned([shape |-> shape,
                  data |-> [f \in 1..Prod(shape) |->
                               pooled(Unravel(f - 1, shape))]])

(* Pool2DLayer.get_output_for *)
Pool2DLayer_get_output_for(self, input) ==
    pool_2d(input, self.pool_size, self.stride, self.ignore_border, self.pad,
            self.mode)

----------------------------------------------------------------------------
(* A two-layer network: an Upscale2DLayer with a pooling layer on top *)

(* An element whose multiples up to 2 are exact, and one near the largest  *)
(* finite value.                                                          *)
Pixels == {6, 20}

(* Batches of one image of at most two elements: one pixel with one or two *)
(* channels, a column of two pixels, a row of two pixels.                   *)
ImageShapes == {s \in [1..4 -> {1, 2}] : s[1] = 1 /\ Prod(s) <= 2}

Images(shape) == {[shape |-> shape, data |-> d] : d \in [1..Prod(shape) -> Pixels]}

ScaleArgs ==
    {IntArg(k) : k \in 0..1}
        \cup {TupArg(<<a, b>>) : a \in 1..MaxScale, b \in 1..MaxScale}

ConstructUpscale2DLayer ==
    /\ op = "none"
    /\ \E shape \in ImageShapes, scale_factor \in ScaleArgs,
          mode \in {"repeat", "dilate", "bilinear"} :
        Constructed("construct_upscale",
                    [cls |-> "Upscale2DLayer", incoming |-> Known(shape),
                     scale_factor |-> scale_factor, mode |-> mode],
                    Upscale2DLayer_init([NoLayer EXCEPT !.cls = "Upscale2DLayer"],
                                        Known(shape), scale_factor, mode))

(* Value computation of the upscaling layer on an image of the shape it was *)
(* built for.                                                               *)
UpscaleGetOutputFor ==
    /\ op = "construct_upscale"
    /\ layer.cls = "Upscale2DLayer"
    /\ \E input \in Images(Sizes(layer.input_shape)) :
        LET ret == Upscale2DLayer_get_output_for(layer, input)
        IN  /\ op' = "get_output_for"
            /\ exc' = ret.exc
            /\ x' = input
            /\ y' = IF ret.exc = "none" THEN ret.val ELSE NoTensor
            /\ UNCHANGED <<call, layer, ctor, shape_in, shape_out, feed>>

(* A pooling layer constructed with the upscaling layer as its incoming     *)
(* layer: its input shape is that layer's output shape, and its input will  *)
(* be that layer's output.                                                  *)
StackPool2DLayer ==
    /\ op = "get_output_for"
    /\ layer.cls = "Upscale2DLayer"
    /\ exc = "none"
    /\ \E cls \in {"Pool2DLayer", "MaxPool2DLayer"},
          pool_size \in {TupArg(layer.scale_factor), IntArg(2)},
          stride \in {NoneArg, IntArg(1)},
          ignore_border \in BOOLEAN,
          mode \in PoolModes :
        LET incoming ==
                Upscale2DLayer_get_output_shape_for(layer, layer.input_shape).val
            outcome == NewPoolLayer(cls, incoming, pool_size, stride,
                                    IntArg(0), ignore_border, mode)
        IN  /\ cls = "MaxPool2DLayer" => mode = "max"
            /\ op' = "stack_pool"
            /\ ctor' = [cls |-> cls, incoming |-> incoming,
                        pool_size |-> pool_size, stride |-> stride,
                        pad |-> IntArg(0), ignore_border |-> ignore_border,
                        mode |-> mode]
            /\ exc' = outcome.exc
            /\ layer' = IF outcome.exc = "none" THEN outcome.val ELSE NoLayer
            /\ feed' = [layer |-> layer, input |-> x]
            /\ x' = y
            /\ y' = NoTensor
            /\ UNCHANGED <<call, shape_in, shape_out>>

(* Value computation of the pooling layer on the upscaling layer's output. *)
PoolGetOutputFor ==
    /\ op = "stack_pool"
    /\ exc = "none"
    /\ LET ret == Pool2DLayer_get_output_for(layer, x)
       IN  /\ op' = "get_output_for"
           /\ exc' = ret.exc
           /\ y' = IF ret.exc = "none" THEN ret.val ELSE NoTensor
           /\ UNCHANGED <<call, layer, ctor, shape_in, shape_out, x, feed>>

NextNet ==
    \/ ConstructUpscale2DLayer
    \/ UpscaleGetOutputFor
    \/ StackPool2DLayer
    \/ PoolGetOutputFor

SpecNet == Init /\ [][NextNet]_vars

----------------------------------------------------------------------------
(* Properties of the network *)

(* The pooling layer on top has window = stride = the scale factors of a    *)
(* repeat-mode upscaling layer below, no padding and ignore_border=True,    *)
(* and has computed its output.                                             *)
PooledRepeat ==
    /\ op = "get_output_for"
    /\ layer.cls \in {"Pool2DLayer", "MaxPool2DLayer"}
    /\ feed.layer.cls = "Upscale2DLayer"
    /\ feed.layer.mode = "repeat"
    /\ layer.pool_size = feed.layer.scale_factor
    /\ layer.stride = layer.pool_size
    /\ layer.pad = <<0, 0>>
    /\ layer.ignore_border

(* The input element that the output element at flat index f pools. *)
Original(f) == feed.input.data[f]

(* The number of elements of a pooling window of the layer on top. *)
WindowCount == layer.pool_size[1] * layer.pool_size[2]

(* Every partial sum of n copies of v is a value of the format. *)
ExactSums(v, n) == \A j \in 1..n : j * v \in Floats

----------------------------------------------------------------------------
(* Upscale1DLayer and Upscale3DLayer *)

(* Upscale1DLayer.__init__ *)
Upscale1DLayer_init(self, incoming, scale_factor, mode) ==
    LET base == Super_init("Upscale1DLayer", self, incoming)
        sf == as_tuple(scale_factor, 1)
    IN  IF base.exc # "none" THEN base
        ELSE IF sf.exc # "none" THEN sf
        ELSE IF sf.val[1] < 1 THEN Raised("ValueError")
        ELSE IF mode \notin {"repeat", "dilate"} THEN Raised("ValueError")
        ELSE Returned([base.val EXCEPT !.scale_factor = sf.val, !.mode = mode])

(* Upscale1DLayer.get_output_shape_for *)
Upscale1DLayer_get_output_shape_for(self, input_shape) ==
    Returned([input_shape EXCEPT ![3] = Times(@, self.scale_factor[1])])

(* T.set_subtensor(T.zeros(shape)[:, :, ::a], t) *)
Dilate1D(t, shape, a) ==
    [shape |-> shape,
     data |-> [f \in 1..Prod(shape) |->
                  LET idx == Unravel(f - 1, shape)
                  IN  IF idx[3] % a = 0
                      THEN At(t, [idx EXCEPT ![3] = @ \div a])
                      ELSE 0]]

(* Mutant: dilate mode repeats the elements instead of leaving zeros. *)
Upscale1DLayer_get_output_for_repeat(self, input) ==
    LET a == self.scale_factor[1]
    IN  Returned(IF a > 1 THEN Repeat(input, a, 3) ELSE input)

(* Upscale1DLayer.get_output_for *)
Upscale1DLayer_get_output_for(self, input) ==
    LET a == self.scale_factor[1]
    IN  IF self.mode = "repeat"
        THEN Returned(IF a > 1 THEN Repeat(input, a, 3) ELSE input)
        ELSE IF self.mode = "dilate" /\ a > 1
        THEN LET output_shape ==
                     Upscale1DLayer_get_output_shape_for(self, Known(input.shape))
             IN  Returned(Dilate1D(input, Sizes(output_shape.val), a))
        ELSE Returned(input)

(* Upscale3DLayer.__init__ *)
Upscale3DLayer_init(self, incoming, scale_factor, mode) ==
    LET base == Super_init("Upscale3DLayer", self, incoming)
        sf == as_tuple(scale_factor, 3)
    IN  IF base.exc # "none" THEN base
        ELSE IF sf.exc # "none" THEN sf
        ELSE IF sf.val[1] < 1 \/ sf.val[2] < 1 \/ sf.val[3] < 1
             THEN Raised("ValueError")
        ELSE IF mode \notin {"repeat", "dilate"} THEN Raised("ValueError")
        ELSE Returned([base.val EXCEPT !.scale_factor = sf.val, !.mode = mode])

(* Mutant: the last spatial entry is left as it is. *)
Upscale3DLayer_get_output_shape_for_two(self, input_shape) ==
    Returned([input_shape EXCEPT ![3] = Times(@, self.scale_factor[1]),
                                 ![4] = Times(@, self.scale_factor[2])])

(* Upscale3DLayer.get_output_shape_for *)
Upscale3DLayer_get_output_shape_for(self, input_shape) ==
    Returned([input_shape EXCEPT ![3] = Times(@, self.scale_factor[1]),
                                 ![4] = Times(@, self.scale_factor[2]),
                                 ![5] = Times(@, self.scale_factor[3])])

(* T.set_subtensor(T.zeros(shape)[:, :, ::a, ::b, ::c], t) *)
Dilate3D(t, shape, a, b, c) ==
    [shape |-> shape,
     data |-> [f \in 1..Prod(shape) |->
                  LET idx == Unravel(f - 1, shape)
                  IN  IF idx[3] % a = 0 /\ idx[4] % b = 0 /\ idx[5] % c = 0
                      THEN At(t, [idx EXCEPT ![3] = @ \div a, ![4] = @ \div b,
                                             ![5] = @ \div c])
                      ELSE 0]]

(* Upscale3DLayer.get_output_for *)
Upscale3DLayer_get_output_for(self, input) ==
    LET a == self.scale_factor[1]
        b == self.scale_factor[2]
        c == self.scale_factor[3]
    IN  IF self.mode = "repeat"
        THEN LET along5 == IF c > 1 THEN Repeat(input, c, 5) ELSE input
                 along4 == IF b > 1 THEN Repeat(along5, b, 4) ELSE along5
             IN  Returned(IF a > 1 THEN Repeat(along4, a, 3) ELSE along4)
        ELSE IF self.mode = "dilate" /\ (c > 1 \/ b > 1 \/ a > 1)
        THEN LET output_shape ==
                     Upscale3DLayer_get_output_shape_for(self, Known(input.shape))
             IN  Returned(Dilate3D(input, Sizes(output_shape.val), a, b, c))
        ELSE Returned(input)

----------------------------------------------------------------------------
(* The upscaling layers: construction, shape inference, value computation *)

UpscaleClasses == {"Upscale1DLayer", "Upscale2DLayer", "Upscale3DLayer"}

(* The number of spatial axes of an upscaling class. *)
UpscaleDims(cls) ==
    CASE cls = "Upscale1DLayer" -> 1
      [] cls = "Upscale2DLayer" -> 2
      [] cls = "Upscale3DLayer" -> 3

(* cls(incoming, scale_factor, mode) *)
NewUpscaleLayer(cls, incoming, scale_factor, mode) ==
    LET self == [NoLayer EXCEPT !.cls = cls]
    IN  CASE cls = "Upscale1DLayer" ->
               Upscale1DLayer_init(self, incoming, scale_factor, mode)
          [] cls = "Upscale2DLayer" ->
               Upscale2DLayer_init(self, incoming, scale_factor, mode)
          [] cls = "Upscale3DLayer" ->
               Upscale3DLayer_init(self, incoming, scale_factor, mode)

(* self.get_output_shape_for(input_shape), by the class of self *)
UpscaleLayer_get_output_shape_for(self, input_shape) ==
    CASE self.cls = "Upscale1DLayer" ->
           Upscale1DLayer_get_output_shape_for(self, input_shape)
      [] self.cls = "Upscale2DLayer" ->
           Upscale2DLayer_get_output_shape_for(self, input_shape)
      [] self.cls = "Upscale3DLayer" ->
           Upscale3DLayer_get_output_shape_for(self, input_shape)

(* self.get_output_for(input), by the class of self *)
UpscaleLayer_get_output_for(self, input) ==
    CASE self.cls = "Upscale1DLayer" -> Upscale1DLayer_get_output_for(self, input)
      [] self.cls = "Upscale2DLayer" -> Upscale2DLayer_get_output_for(self, input)
      [] self.cls = "Upscale3DLayer" -> Upscale3DLayer_get_output_for(self, input)

(* Batches of one sample of at most two elements, of the given rank. *)
SampleShapes(rank) == {s \in [1..rank -> {1, 2}] : s[1] = 1 /\ Prod(s) <= 2}

(* An integer, or one scale factor per spatial axis. *)
ScaleFactorArgs(dims) ==
    {IntArg(k) : k \in 0..1}
        \cup {TupArg(t) : t \in [1..dims -> 1..MaxScale]}

(* Input shapes of the given rank whose entries are unknown or known. *)
PartialShapes(rank) == [1..rank -> {None, Some(1), Some(2)}]

ConstructUpscaleLayer ==
    /\ op = "none"
    /\ \E cls \in UpscaleClasses, mode \in {"repeat", "dilate", "bilinear"} :
         \E shape \in SampleShapes(UpscaleDims(cls) + 2),
            scale_factor \in ScaleFactorArgs(UpscaleDims(cls)) :
            Constructed("construct_upscale",
                        [cls |-> cls, incoming |-> Known(shape),
                         scale_factor |-> scale_factor, mode |-> mode],
                        NewUpscaleLayer(cls, Known(shape), scale_factor, mode))

(* Shape inference on a constructed upscaling layer. The method copies the  *)
(* shape it is given (list(input_shape)) and changes the copy only, so the  *)
(* caller's shape after the call, shape_in, is the shape passed.            *)
UpscaleGetOutputShapeFor ==
    /\ op = "construct_upscale"
    /\ layer.cls \in UpscaleClasses
    /\ \E input_shape \in PartialShapes(Len(layer.input_shape)) :
        LET ret == UpscaleLayer_get_output_shape_for(layer, input_shape)
        IN  /\ op' = "get_output_shape_for"
            /\ exc' = ret.exc
            /\ shape_in' = input_shape
            /\ shape_out' = ret.val
            /\ UNCHANGED <<call, layer, ctor, x, y, feed>>

(* Value computation on a tensor of the shape the layer was built for. *)
UpscaleLayerGetOutputFor ==
    /\ op = "construct_upscale"
    /\ layer.cls \in UpscaleClasses
    /\ \E input \in Images(Sizes(layer.input_shape)) :
        LET ret == UpscaleLayer_get_output_for(layer, input)
        IN  /\ op' = "get_output_for"
            /\ exc' = ret.exc
            /\ x' = input
            /\ y' = IF ret.exc = "none" THEN ret.val ELSE NoTensor
            /\ UNCHANGED <<call, layer, ctor, shape_in, shape_out, feed>>

NextUpscale ==
    \/ ConstructUpscaleLayer
    \/ UpscaleGetOutputShapeFor
    \/ UpscaleLayerGetOutputFor

SpecUpscale == Init /\ [][NextUpscale]_vars

----------------------------------------------------------------------------
(* Properties of the upscaling layers *)

(* The scale factor of the axis at position k (1-based) of the layer's      *)
(* input: 1 for the batch and channel axes.                                 *)
AxisScale(k) == IF k <= 2 THEN 1 ELSE layer.scale_factor[k - 2]

(* A dilate-mode layer with a scale factor above 1 has computed its output. *)
Dilated ==
    /\ op = "get_output_for"
    /\ layer.cls \in UpscaleClasses
    /\ layer.mode = "dilate"
    /\ \E i \in 1..Len(layer.scale_factor) : layer.scale_factor[i] > 1

(* C11: the output of dilate-mode upscaling has the inferred output shape;  *)
(* a position whose spatial indices are all multiples of the scale factors  *)
(* holds the input element at index / scale; every other position is zero.  *)
C11_DilateScattersInput ==
    Dilated
        => /\ exc = "none"
           /\ Known(y.shape)
                 = UpscaleLayer_get_output_shape_for(layer, Known(x.shape)).val
           /\ \A f \in 1..Len(y.data) :
                LET idx == Unravel(f - 1, y.shape)
                IN  y.data[f] =
                       IF \A k \in 1..Len(idx) : idx[k] % AxisScale(k) = 0
                       THEN At(x, [k \in 1..Len(idx) |-> idx[k] \div AxisScale(k)])
                       ELSE 0

(* C11 witness: a row of two pixels dilated by 2 along the rows and 1 along *)
(* the columns of a 2D layer.                                               *)
C11_Witness ==
    /\ Dilated
    /\ layer.cls = "Upscale2DLayer"
    /\ layer.scale_factor = <<2, 1>>
    /\ x = [shape |-> <<1, 1, 1, 2>>, data |-> <<6, 20>>]
    /\ y = [shape |-> <<1, 1, 2, 2>>, data |-> <<6, 20, 0, 0>>]

(* Shape inference of an upscaling layer has returned. *)
UpscaleShapeInferred ==
    /\ op = "get_output_shape_for"
    /\ layer.cls \in UpscaleClasses

----------------------------------------------------------------------------
(* Shape inference of the windowed pooling layers *)

(* Pool1DLayer.get_output_shape_for *)
Pool1DLayer_get_output_shape_for(self, input_shape) ==
    LET length == pool_output_length(Item(input_shape, -1),
                                     Some(self.pool_size[1]), self.stride[1],
                                     self.pad[1], self.ignore_border)
    IN  IF length.exc # "none" THEN length
        ELSE Returned([input_shape EXCEPT ![Len(input_shape)] = length.val])

(* self.get_output_shape_for(input_shape), by the class of self; the max    *)
(* pooling classes inherit the method.                                      *)
PoolLayer_get_output_shape_for(self, input_shape) ==
    CASE self.cls \in {"Pool1DLayer", "MaxPool1DLayer"} ->
           Pool1DLayer_get_output_shape_for(self, input_shape)
      [] self.cls \in {"Pool2DLayer", "MaxPool2DLayer"} ->
           Pool2DLayer_get_output_shape_for(self, input_shape)

(* One window, stride or pad per spatial axis. *)
PerAxisArgs(dims, vals) == {TupArg(t) : t \in [1..dims -> vals]}

(* Input shapes of a pooling layer with dims spatial axes: batch size       *)
(* unknown, spatial entries unknown or known.                               *)
PoolInputShapes(dims) ==
    {<<None, Some(2)>> \o t : t \in [1..dims -> {None, Some(3), Some(4)}]}

(* The 1D and 2D pooling classes, built with per-axis arguments on a shape  *)
(* of the rank they expect.                                                 *)
ConstructPoolLayerPerAxis ==
    /\ op = "none"
    /\ \E cls \in {"Pool1DLayer", "MaxPool1DLayer", "Pool2DLayer",
                   "MaxPool2DLayer"},
          ignore_border \in BOOLEAN, mode \in PoolModes :
         \E incoming \in PoolInputShapes(SpatialDims(cls)),
            pool_size \in PerAxisArgs(SpatialDims(cls), 1..MaxWin),
            stride \in {NoneArg} \cup PerAxisArgs(SpatialDims(cls), 1..2),
            pad \in PerAxisArgs(SpatialDims(cls), 0..1) :
            /\ cls \in MaxPoolClasses => mode = "max"
            /\ Constructed("construct_pool",
                           [cls |-> cls, incoming |-> incoming,
                            pool_size |-> pool_size, stride |-> stride,
                            pad |-> pad, ignore_border |-> ignore_border,
                            mode |-> mode],
                           NewPoolLayer(cls, incoming, pool_size, stride, pad,
                                        ignore_border, mode))

(* Shape inference on a constructed pooling layer. *)
PoolGetOutputShapeFor ==
    /\ op = "construct_pool"
    /\ exc = "none"
    /\ \E input_shape \in PoolInputShapes(Len(layer.input_shape) - 2) :
        LET ret == PoolLayer_get_output_shape_for(layer, input_shape)
        IN  /\ op' = "get_output_shape_for"
            /\ exc' = ret.exc
            /\ shape_in' = input_shape
            /\ shape_out' = IF ret.exc = "none" THEN ret.val ELSE NoShape
            /\ UNCHANGED <<call, layer, ctor, x, y, feed>>

NextPoolShape == ConstructPoolLayerPerAxis \/ PoolGetOutputShapeFor

SpecPoolShape == Init /\ [][NextPoolShape]_vars

(* Shape inference of a pooling layer has been called. *)
PoolShapeInferred ==
    /\ op = "get_output_shape_for"
    /\ layer.cls \in PoolClasses \cup MaxPoolClasses

(* pool_output_length on the spatial entry at position k (1-based, k > 2)   *)
(* with that axis's own window, stride and pad.                             *)
AxisLength(k) ==
    pool_output_length(shape_in[k], Some(layer.pool_size[k - 2]),
                       layer.stride[k - 2], layer.pad[k - 2],
                       layer.ignore_border)

(* C13: pooling shape inference keeps the rank and the batch and channel    *)
(* entries, and every spatial entry is pool_output_length of that entry     *)
(* with the axis's own window, stride and pad (failing where it fails); an  *)
(* unspecified stride is the window.                                        *)
C13_PoolShapePerAxis ==
    PoolShapeInferred
        => /\ ctor.stride = NoneArg => layer.stride = layer.pool_size
           /\ IF \E k \in 3..Len(shape_in) : AxisLength(k).exc # "none"
              THEN \E k \in 3..Len(shape_in) : exc = AxisLength(k).exc
              ELSE /\ exc = "none"
                   /\ Len(shape_out) = Len(shape_in)
                   /\ \A k \in 1..Len(shape_in) :
                        shape_out[k] = IF k <= 2 THEN shape_in[k]
                                       ELSE AxisLength(k).val

(* C13 witness: a 2D layer with window (1, 2) and no stride given halves    *)
(* the columns only.                                                        *)
C13_Witness ==
    /\ PoolShapeInferred
    /\ layer.cls = "Pool2DLayer"
    /\ ctor.stride = NoneArg
    /\ layer.pool_size = <<1, 2>>
    /\ layer.pad = <<0, 0>>
    /\ shape_in = <<None, Some(2), Some(4), Some(4)>>
    /\ shape_out = <<None, Some(2), Some(4), Some(2)>>

----------------------------------------------------------------------------
(* FeaturePoolLayer: shape inference and value computation *)

(* An index of a slice of a sequence of n entries: negative counts from the *)
(* end, and the result is cut to 0..n.                                      *)
SliceIndex(i, n) ==
    LET j == IF i < 0 THEN i + n ELSE i
    IN  IF j < 0 THEN 0 ELSE IF j > n THEN n ELSE j

(* seq[start:stop] *)
PySlice(seq, start, stop) ==
    SubSeq(seq, SliceIndex(start, Len(seq)) + 1, SliceIndex(stop, Len(seq)))

(* FeaturePoolLayer.get_output_shape_for: None // pool_size is a TypeError. *)
FeaturePoolLayer_get_output_shape_for(self, input_shape) ==
    IF ~InRange(input_shape, self.axis) THEN Raised("IndexError")
    ELSE LET size == Item(input_shape, self.axis)
         IN  IF IsNone(size) THEN Raised("TypeError")
             ELSE Returned([input_shape EXCEPT
                               ![AxisPos(self.axis, Len(input_shape))] =
                                   Some(FloorDiv(Val(size), self.pool_size))])

(* The reshape target of FeaturePoolLayer.get_output_for. *)
FeaturePoolLayer_pool_shape(self, input) ==
    LET input_shape == input.shape
        num_feature_maps == Item(input_shape, self.axis)
        num_feature_maps_out == FloorDiv(num_feature_maps, self.pool_size)
    IN  PySlice(input_shape, 0, self.axis)
            \o <<num_feature_maps_out, self.pool_size>>
            \o PySlice(input_shape, self.axis + 1, Len(input_shape))

(* FeaturePoolLayer.get_output_for, with pool_function = T.max *)
FeaturePoolLayer_get_output_for(self, input) ==
    LET pool_shape == FeaturePoolLayer_pool_shape(self, input)
        input_reshaped == Reshape(input, pool_shape)
    IN  IF input_reshaped.exc # "none" THEN input_reshaped
        ELSE Returned(MaxAlong(input_reshaped.val,
                               AxisPos(self.axis + 1, Len(pool_shape))))

(* The reshape target of FeatureWTALayer.get_output_for. *)
FeatureWTALayer_pool_shape(self, input) ==
    LET num_feature_maps == Item(input.shape, self.axis)
        num_pools == FloorDiv(num_feature_maps, self.pool_size)
    IN  Items(input.shape, PyRange(0, self.axis))
            \o <<num_pools, self.pool_size>>
            \o Items(input.shape, PyRange(self.axis + 1, Len(input.shape)))

ConstructFeaturePoolLayer ==
    /\ op = "none"
    /\ \E rank \in 1..MaxAxisRank :
         \E shape \in TensorShapes(rank), pool_size \in 1..MaxPool,
            axis \in (-rank)..(rank - 1) :
            Constructed("construct_feature",
                        [cls |-> "FeaturePoolLayer", incoming |-> Known(shape),
                         pool_size |-> pool_size, axis |-> axis],
                        NewFeatureLayer("FeaturePoolLayer", Known(shape),
                                        pool_size, axis))

(* Shape inference on a constructed feature pooling layer. *)
FeaturePoolGetOutputShapeFor ==
    /\ op = "construct_feature"
    /\ layer.cls = "FeaturePoolLayer"
    /\ \E shape \in TensorShapes(Len(layer.input_shape)) :
        LET ret == FeaturePoolLayer_get_output_shape_for(layer, Known(shape))
        IN  /\ op' = "get_output_shape_for"
            /\ exc' = ret.exc
            /\ shape_in' = Known(shape)
            /\ shape_out' = IF ret.exc = "none" THEN ret.val ELSE NoShape
            /\ UNCHANGED <<call, layer, ctor, x, y, feed>>

(* Value computation on a tensor of the shape the layer was built for. *)
FeaturePoolGetOutputFor ==
    /\ op = "construct_feature"
    /\ layer.cls = "FeaturePoolLayer"
    /\ \E input \in Tensors(Sizes(layer.input_shape)) :
        LET ret == FeaturePoolLayer_get_output_for(layer, input)
        IN  /\ op' = "get_output_for"
            /\ exc' = ret.exc
            /\ x' = input
            /\ y' = IF ret.exc = "none" THEN ret.val ELSE NoTensor
            /\ UNCHANGED <<call, layer, ctor, shape_in, shape_out, feed>>

(* Both feature pooling classes. *)
NextFeature ==
    \/ ConstructFeaturePoolLayer
    \/ FeaturePoolGetOutputShapeFor
    \/ FeaturePoolGetOutputFor
    \/ ConstructWTALayer
    \/ WTAGetOutputShapeFor
    \/ WTAGetOutputFor

SpecFeature == Init /\ [][NextFeature]_vars

----------------------------------------------------------------------------
(* Properties of the feature pooling layers *)

(* The elements of x in group g (0-based) of the target axis through idx. *)
Group(idx, g) ==
    [j \in 1..layer.pool_size |->
        At(x, [idx EXCEPT ![TargetPos] = g * layer.pool_size + j - 1])]

(* C14: feature-pool shape inference on a shape whose target-axis size is a *)
(* multiple of pool_size divides that entry by pool_size and keeps the      *)
(* others, and value computation returns a tensor of exactly that shape     *)
(* whose group g is the reduction of input elements g * pool_size ..        *)
(* (g + 1) * pool_size - 1 of the target axis.                              *)
C14_FeaturePoolShapeAndGroups ==
    /\ (/\ op = "get_output_shape_for"
        /\ layer.cls = "FeaturePoolLayer"
        /\ Val(shape_in[TargetPos]) % layer.pool_size = 0)
          => /\ exc = "none"
             /\ shape_out = TargetAxisDivided(shape_in)
    /\ (op = "get_output_for" /\ layer.cls = "FeaturePoolLayer")
          => /\ exc = "none"
             /\ Known(y.shape) = TargetAxisDivided(Known(x.shape))
             /\ \A f \in 1..Len(y.data) :
                  LET idx == Unravel(f - 1, y.shape)
                  IN  y.data[f] = MaxOf(Group(idx, idx[TargetPos]))

(* The reshape target that value computation built for the input x. *)
PoolShapeBuilt ==
    IF layer.cls = "FeaturePoolLayer"
    THEN FeaturePoolLayer_pool_shape(layer, x)
    ELSE FeatureWTALayer_pool_shape(layer, x)

(* The input axes before the target axis, the target axis split into        *)
(* (size // pool_size, pool_size), the input axes after the target axis.    *)
TargetAxisSplit ==
    SubSeq(x.shape, 1, TargetPos - 1)
        \o <<x.shape[TargetPos] \div layer.pool_size, layer.pool_size>>
        \o SubSeq(x.shape, TargetPos + 1, Len(x.shape))

(* C17: for every target axis index that construction accepts, negative     *)
(* ones included, the reshape target of value computation has rank + 1      *)
(* entries, is the input shape with the target axis split in two, and has   *)
(* the element count of the input, so that the reshape succeeds.            *)
C17_ReshapeTargetSplitsAxis ==
    (op = "get_output_for" /\ layer.cls \in {"FeaturePoolLayer", "FeatureWTALayer"})
        => /\ Len(PoolShapeBuilt) = Len(x.shape) + 1
           /\ PoolShapeBuilt = TargetAxisSplit
           /\ Prod(PoolShapeBuilt) = Prod(x.shape)
           /\ exc # "ValueError"

----------------------------------------------------------------------------
(* GlobalPoolLayer *)

(* GlobalPoolLayer.__init__, with pool_function = T.mean *)
GlobalPoolLayer_init(self, incoming) ==
    LET base == Super_init("GlobalPoolLayer", self, incoming)
    IN  IF base.exc # "none" THEN base
        ELSE Returned([base.val EXCEPT !.pool_function = "mean"])

(* Mutant: only the last axis is pooled away. *)
GlobalPoolLayer_get_output_shape_for_last(self, input_shape) ==
    Returned(PySlice(input_shape, 0, -1))

(* GlobalPoolLayer.get_output_shape_for *)
GlobalPoolLayer_get_output_shape_for(self, input_shape) ==
    Returned(PySlice(input_shape, 0, 2))

(* tensor.flatten(3): the axes from the third on collapsed into one; a      *)
(* tensor of fewer than three axes cannot be flattened to three.            *)
Flatten3(t) ==
    IF Len(t.shape) < 3 THEN Raised("ValueError")
    ELSE Returned([shape |-> SubSeq(t.shape, 1, 2)
                                \o <<Prod(SubSeq(t.shape, 3, Len(t.shape)))>>,
                   data |-> t.data])

(* T.mean(t, axis=2) of a tensor of three axes. *)
MeanAlong3(t) ==
    LET shape == SubSeq(t.shape, 1, 2)
    IN  [shape |-> shape,
         data |-> [f \in 1..Prod(shape) |->
                      FDiv(FSum(Line(t, Unravel(f - 1, shape) \o <<0>>, 3)),
                           t.shape[3])]]

(* GlobalPoolLayer.get_output_for *)
GlobalPoolLayer_get_output_for(self, input) ==
    LET flat == Flatten3(input)
    IN  IF flat.exc # "none" THEN flat
        ELSE Returned(MeanAlong3(flat.val))

(* Input shapes (N, C, d1, ..., dm), m >= 1, of unknown and known entries. *)
GlobalInputShapes ==
    UNION {[1..r -> {None, Some(1), Some(2)}] : r \in 3..MaxRank}

ConstructGlobalPoolLayer ==
    /\ op = "none"
    /\ \E incoming \in GlobalInputShapes :
        Constructed("construct_global",
                    [cls |-> "GlobalPoolLayer", incoming |-> incoming],
                    GlobalPoolLayer_init([NoLayer EXCEPT !.cls = "GlobalPoolLayer"],
                                         incoming))

(* Shape inference on the input shape of the constructed layer. *)
GlobalPoolGetOutputShapeFor ==
    /\ op = "construct_global"
    /\ LET ret == GlobalPoolLayer_get_output_shape_for(layer, layer.input_shape)
       IN  /\ op' = "get_output_shape_for"
           /\ exc' = ret.exc
           /\ shape_in' = layer.input_shape
           /\ shape_out' = ret.val
           /\ UNCHANGED <<call, layer, ctor, x, y, feed>>

(* Value computation on a tensor of the shape the layer was built for, when *)
(* that shape is known in full.                                             *)
GlobalPoolGetOutputFor ==
    /\ op = "construct_global"
    /\ \A k \in 1..Len(layer.input_shape) : ~IsNone(layer.input_shape[k])
    /\ Prod(Sizes(layer.input_shape)) <= MaxElems
    /\ \E input \in Images(Sizes(layer.input_shape)) :
        LET ret == GlobalPoolLayer_get_output_for(layer, input)
        IN  /\ op' = "get_output_for"
            /\ exc' = ret.exc
            /\ x' = input
            /\ y' = IF ret.exc = "none" THEN ret.val ELSE NoTensor
            /\ UNCHANGED <<call, layer, ctor, shape_in, shape_out, feed>>

NextGlobal ==
    \/ ConstructGlobalPoolLayer
    \/ GlobalPoolGetOutputShapeFor
    \/ GlobalPoolGetOutputFor

SpecGlobal == Init /\ [][NextGlobal]_vars

(* C15: global-pool shape inference on (N, C, d1, ..., dm), m >= 1, returns *)
(* exactly (N, C), whatever m is and whether or not the trailing entries    *)
(* are known.                                                               *)
C15_GlobalPoolShape ==
    (op = "get_output_shape_for" /\ layer.cls = "GlobalPoolLayer")
        => /\ exc = "none"
           /\ shape_out = <<shape_in[1], shape_in[2]>>

(* C15 witness: a single trailing axis of unknown size. *)
C15_Witness ==
    /\ op = "get_output_shape_for"
    /\ layer.cls = "GlobalPoolLayer"
    /\ shape_in = <<Some(2), Some(1), None>>
    /\ shape_out = <<Some(2), Some(1)>>

----------------------------------------------------------------------------
(* The documented example of pool_output_length *)

(* pool_output_length was called with input_length 10, pool_size 3,         *)
(* stride 2 and pad 0.                                                      *)
ExampleCall ==
    /\ op = "pool_output_length"
    /\ call.input_length = Some(10)
    /\ call.pool_size = Some(3)
    /\ call.stride = 2
    /\ call.pad = 0

(* C16: pool_output_length(10, pool_size=3, stride=2, pad=0) is 4 with      *)
(* ignore_border=True and 5 with ignore_border=False.                       *)
C16_Example ==
    ExampleCall
        => call.ret = Returned(Some(IF call.ignore_border THEN 4 ELSE 5))

(* C16 witness: the example call with ignore_border=False has returned 5. *)
C16_Witness ==
    /\ ExampleCall
    /\ ~call.ignore_border
    /\ call.ret = Returned(Some(5))

====
